---------------------------- MODULE Spec2Model ----------------------------
(***************************************************************************)
(* CubismModel (parameter / part / drawable-colour registry),              *)
(* CubismExpressionMotion (blending of expressions into the accumulator)   *)
(* and CubismMoc (creation from a payload).                                *)
(*                                                                         *)
(* The CubismModel object is the record `this`; every method is a pure     *)
(* operator from the object (and the arguments) to the object after the    *)
(* call, the value returned and whether the index-range assertion was met  *)
(* with a false condition.  One action per public method applies it.       *)
(*                                                                         *)
(* Numbers.  A JavaScript number is a record [n, d]: the rational n/d in   *)
(* lowest terms when d > 0, NaN when d = 0 and n = 0, and the value        *)
(* `undefined` when d = 0 and n = 1.  The values the actions pass are      *)
(* dyadic rationals of a few bits, on which the double arithmetic of the   *)
(* code and the store into a Float32Array are exact; the frame time 3/10   *)
(* and the fade weights it gives are exact here and within rounding in the *)
(* code.                                                                   *)
(*                                                                         *)
(* Indices.  getParameterIndex / getPartIndex are typed `number` but at    *)
(* run time return one of: an integer, NaN, or a value inherited from      *)
(* Object.prototype.  An index is the record [k, n, id] with k one of      *)
(* "number", "NaN", "object".                                              *)
(***************************************************************************)
EXTENDS Integers, Sequences, FiniteSets, TLC

VARIABLES
    this,                   \* the CubismModel object
    call,                   \* the latest public call: method, arguments, value returned
    resolvedParameter,      \* identifier -> the index its latest resolution returned
    unknownParameterOrder,  \* identifiers absent from the model, in order of first resolution
    resolvedPart,           \* the same two for part identifiers
    unknownPartOrder,
    overwriteSet,           \* per drawable, the value last passed to each flag setter
    atSave,                 \* the real parameter values at the latest saveParameters call
    remaining,              \* public calls the caller still makes
    motions,                \* the CubismExpressionMotion objects
    entries,                \* motionQueueEntry of each: the playback instance
    expressionParameterValues, \* the accumulator: one slot per parameter
    userTimeSeconds,        \* the time value of the latest blend call
    cubismMoc,              \* what the latest CubismMoc.create gave: an object or an error
    engineCalls             \* the calls made to Live2DCubismCore, in order

vars == <<this, call, resolvedParameter, unknownParameterOrder,
          resolvedPart, unknownPartOrder, overwriteSet, atSave, remaining,
          motions, entries, expressionParameterValues, userTimeSeconds,
          cubismMoc, engineCalls>>

mocVars == <<cubismMoc, engineCalls>>

expressionVars == <<motions, entries, expressionParameterValues, userTimeSeconds>>

---------------------------------------------------------------------------
(* JavaScript numbers *)

Abs(a) == IF a < 0 THEN -a ELSE a

RECURSIVE GCD(_, _)
GCD(a, b) == IF b = 0 THEN a ELSE GCD(b, a % b)

Number(n, d) ==
    LET g == GCD(Abs(n), d) IN [n |-> n \div g, d |-> d \div g]

Int2Num(i) == Number(i, 1)

NaN == [n |-> 0, d |-> 0]

Undefined == [n |-> 1, d |-> 0]

IsNum(x) == x.d > 0

Plus(x, y) ==
    IF IsNum(x) /\ IsNum(y) THEN Number(x.n * y.d + y.n * x.d, x.d * y.d) ELSE NaN

Minus(x, y) ==
    IF IsNum(x) /\ IsNum(y) THEN Number(x.n * y.d - y.n * x.d, x.d * y.d) ELSE NaN

Times(x, y) ==
    IF IsNum(x) /\ IsNum(y) THEN Number(x.n * y.n, x.d * y.d) ELSE NaN

\* x / y, for a divisor that is not 0
Divide(x, y) ==
    IF IsNum(x) /\ IsNum(y) /\ y.n # 0
    THEN IF y.n > 0 THEN Number(x.n * y.d, x.d * y.n)
         ELSE Number(-(x.n * y.d), x.d * (-y.n))
    ELSE NaN

\* x < y: false whenever an operand is not a number
Less(x, y) == IsNum(x) /\ IsNum(y) /\ x.n * y.d < y.n * x.d

\* x == y on numbers: NaN equals nothing
NumEq(x, y) == IsNum(x) /\ IsNum(y) /\ x = y

Zero == Int2Num(0)

One == Int2Num(1)

---------------------------------------------------------------------------
(* Index values and property keys *)

Num(i) == [k |-> "number", n |-> i, id |-> ""]

NaNIndex == [k |-> "NaN", n |-> 0, id |-> ""]

\* the value of Object.prototype[id], e.g. the function Object for "constructor"
Inherited(id) == [k |-> "object", n |-> 0, id |-> id]

\* The names every object literal {} inherits from Object.prototype.
ObjectPrototypeKeys ==
    {"constructor", "toString", "valueOf", "hasOwnProperty", "isPrototypeOf",
     "propertyIsEnumerable", "toLocaleString", "__proto__"}

\* key in obj, for obj created by {}: own properties, then the prototype chain
HasProperty(obj, key) == key \in DOMAIN obj \/ key \in ObjectPrototypeKeys

\* obj[key]
GetProperty(obj, key) == IF key \in DOMAIN obj THEN obj[key] ELSE Inherited(key)

\* obj[key] = value
PutProperty(obj, key, value) ==
    [x \in DOMAIN obj \cup {key} |-> IF x = key THEN value ELSE obj[x]]

\* index in obj, for obj a Record<number, number> created by {}.  The property
\* key of an index is the string of its value ("3", "NaN", the source text of
\* a function): distinct for distinct index values and never a name inherited
\* from Object.prototype, so only own properties are found.
HasIndex(obj, index) == index \in DOMAIN obj

EmptyObject == [x \in {} |-> Zero]

---------------------------------------------------------------------------
(* The loaded model: what the engine reports (this._model) *)

parameterIds == <<"ParamA", "ParamB">>

parameterCount == Len(parameterIds)

minimumValues == <<Int2Num(-1), Zero>>

maximumValues == <<One, Int2Num(2)>>

defaultValues == <<Zero, One>>

partIds == <<"PartA", "PartB">>

partCount == Len(partIds)

drawableCount == Len(<<"ArtMesh0", "ArtMesh1">>)

\* an integer index of a typed array or of a list: 0 <= i < count
InRange(index, count) == index.k = "number" /\ 0 <= index.n /\ index.n < count

---------------------------------------------------------------------------
(* CubismModel: parameters.  Each operator gives [m, ret, failed]: the     *)
(* object after the call, the value returned, and whether the assertion's  *)
(* condition was false.                                                    *)

Result(m, ret, failed) == [m |-> m, ret |-> ret, failed |-> failed]

\* the position of id in a list of identifiers, or -1
RECURSIVE Scan(_, _, _)
Scan(ids, id, i) ==
    IF i >= Len(ids) THEN -1
    ELSE IF ids[i + 1] = id THEN i
    ELSE Scan(ids, id, i + 1)

getParameterIndex(m, parameterId) ==
    LET found == Scan(parameterIds, parameterId, 0) IN
    IF found >= 0 THEN Result(m, Num(found), FALSE)
    ELSE IF HasProperty(m.notExistParameterId, parameterId)
    THEN Result(m, GetProperty(m.notExistParameterId, parameterId), FALSE)
    ELSE LET parameterIndex ==
                 Num(parameterCount + Cardinality(DOMAIN m.notExistParameterId))
         IN Result([m EXCEPT
                       !.notExistParameterId =
                           PutProperty(@, parameterId, parameterIndex),
                       !.notExistParameterValues =
                           PutProperty(@, parameterIndex, Zero)],
                   parameterIndex, FALSE)

getParameterValueByIndex(m, parameterIndex) ==
    IF HasIndex(m.notExistParameterValues, parameterIndex)
    THEN Result(m, m.notExistParameterValues[parameterIndex], FALSE)
    ELSE IF InRange(parameterIndex, parameterCount)
    THEN Result(m, m.parameterValues[parameterIndex.n + 1], FALSE)
    ELSE Result(m, Undefined, TRUE)

getParameterValueById(m, parameterId) ==
    LET r == getParameterIndex(m, parameterId) IN
    getParameterValueByIndex(r.m, r.ret)

\* ClampValue without either comparison
ClampValue_None(parameterIndex, value) == value

\* ClampValue without the comparison against the minimum
ClampValue_UpperOnly(parameterIndex, value) ==
    IF Less(maximumValues[parameterIndex.n + 1], value)
    THEN maximumValues[parameterIndex.n + 1] ELSE value

\* lines 497-502: the value is brought into [minimum, maximum] before it is used
ClampValue(parameterIndex, value) ==
    LET v1 == IF Less(maximumValues[parameterIndex.n + 1], value)
              THEN maximumValues[parameterIndex.n + 1] ELSE value
    IN IF Less(v1, minimumValues[parameterIndex.n + 1])
       THEN minimumValues[parameterIndex.n + 1] ELSE v1

\* weight == 1 ? value : stored * (1 - weight) + value * weight
Weighted(stored, value, weight) ==
    IF NumEq(weight, One) THEN value
    ELSE Plus(Times(stored, Minus(One, weight)), Times(value, weight))

\* setParameterValueByIndex interpolating first and clamping the result
setParameterValueByIndex_ClampAfter(m, parameterIndex, value, weight) ==
    IF HasIndex(m.notExistParameterValues, parameterIndex)
    THEN Result([m EXCEPT !.notExistParameterValues[parameterIndex] =
                              Weighted(@, value, weight)],
                Undefined, FALSE)
    ELSE IF InRange(parameterIndex, parameterCount)
    THEN Result([m EXCEPT !.parameterValues[parameterIndex.n + 1] =
                              ClampValue(parameterIndex, Weighted(@, value, weight))],
                Undefined, FALSE)
    ELSE Result(m, Undefined, TRUE)

setParameterValueByIndex(m, parameterIndex, value, weight) ==
    IF HasIndex(m.notExistParameterValues, parameterIndex)
    THEN Result([m EXCEPT !.notExistParameterValues[parameterIndex] =
                              Weighted(@, value, weight)],
                Undefined, FALSE)
    ELSE IF InRange(parameterIndex, parameterCount)
    THEN Result([m EXCEPT !.parameterValues[parameterIndex.n + 1] =
                              Weighted(@, ClampValue(parameterIndex, value), weight)],
                Undefined, FALSE)
    \* assertion met with a false condition; the reads of maximumValues and
    \* minimumValues give undefined, both comparisons are false, and the store
    \* sets no element of the Float32Array
    ELSE Result(m, Undefined, TRUE)

setParameterValueById(m, parameterId, value, weight) ==
    LET r == getParameterIndex(m, parameterId) IN
    setParameterValueByIndex(r.m, r.ret, value, weight)

\* addParameterValueByIndex handing its weight on to setParameterValueByIndex
addParameterValueByIndex_WeightTwice(m, parameterIndex, value, weight) ==
    LET g == getParameterValueByIndex(m, parameterIndex)
        s == setParameterValueByIndex(m, parameterIndex,
                                      Plus(g.ret, Times(value, weight)), weight)
    IN Result(s.m, Undefined, g.failed \/ s.failed)

addParameterValueByIndex(m, parameterIndex, value, weight) ==
    LET g == getParameterValueByIndex(m, parameterIndex)
        s == setParameterValueByIndex(m, parameterIndex,
                                      Plus(g.ret, Times(value, weight)), One)
    IN Result(s.m, Undefined, g.failed \/ s.failed)

addParameterValueById(m, parameterId, value, weight) ==
    LET r == getParameterIndex(m, parameterId) IN
    addParameterValueByIndex(r.m, r.ret, value, weight)

multiplyParameterValueByIndex(m, parameterIndex, value, weight) ==
    LET g == getParameterValueByIndex(m, parameterIndex)
        s == setParameterValueByIndex(
                 m, parameterIndex,
                 Times(g.ret, Plus(One, Times(Minus(value, One), weight))), One)
    IN Result(s.m, Undefined, g.failed \/ s.failed)

multiplyParameterValueById(m, parameterId, value, weight) ==
    LET r == getParameterIndex(m, parameterId) IN
    multiplyParameterValueByIndex(r.m, r.ret, value, weight)

\* savedParameters[i] = parameterValues[i] for i < count, the list grown as needed
saveParameters(m) ==
    Result([m EXCEPT !.savedParameters =
                [i \in 1..(IF Len(@) > parameterCount THEN Len(@) ELSE parameterCount) |->
                    IF i <= parameterCount THEN m.parameterValues[i] ELSE @[i]]],
           Undefined, FALSE)

\* loadParameters with the loop ending one element early
loadParameters_OneShort(m) ==
    LET savedParameterCount == Len(m.savedParameters)
        count == IF parameterCount > savedParameterCount
                 THEN savedParameterCount ELSE parameterCount
    IN Result([m EXCEPT !.parameterValues =
                   [i \in 1..parameterCount |->
                       IF i < count THEN m.savedParameters[i] ELSE @[i]]],
              Undefined, FALSE)

loadParameters(m) ==
    LET savedParameterCount == Len(m.savedParameters)
        count == IF parameterCount > savedParameterCount
                 THEN savedParameterCount ELSE parameterCount
    IN Result([m EXCEPT !.parameterValues =
                   [i \in 1..parameterCount |->
                       IF i <= count THEN m.savedParameters[i] ELSE @[i]]],
              Undefined, FALSE)

---------------------------------------------------------------------------
(* CubismModel: parts *)

UndefinedValue == [k |-> "undefined", n |-> 0, id |-> ""]

\* obj.length of an object created by {}: an own property named "length" if
\* one was stored, undefined otherwise (Object.prototype has no length)
LengthOf(obj) == IF "length" \in DOMAIN obj THEN obj["length"] ELSE UndefinedValue

\* count + x: a number when x is a number, NaN when x is undefined or NaN
CountPlus(count, x) == IF x.k = "number" THEN Num(count + x.n) ELSE NaNIndex

getPartIndex(m, partId) ==
    LET found == Scan(partIds, partId, 0) IN
    IF found >= 0 THEN Result(m, Num(found), FALSE)
    ELSE IF HasProperty(m.notExistPartId, partId)
    THEN Result(m, GetProperty(m.notExistPartId, partId), FALSE)
    ELSE LET partIndex == CountPlus(partCount, LengthOf(m.notExistPartId))
         IN Result([m EXCEPT
                       !.notExistPartId = PutProperty(@, partId, partIndex),
                       !.notExistPartOpacities = PutProperty(@, partIndex, Zero)],
                   partIndex, FALSE)

\* index < 0, false for NaN and for an object
Negative(index) == index.k = "number" /\ index.n < 0

setPartOpacityByIndex(m, partIndex, opacity) ==
    IF HasIndex(m.notExistPartOpacities, partIndex)
    THEN Result([m EXCEPT !.notExistPartOpacities[partIndex] = opacity],
                Undefined, FALSE)
    ELSE IF InRange(partIndex, partCount)
    THEN Result([m EXCEPT !.partOpacities[partIndex.n + 1] = opacity],
                Undefined, FALSE)
    ELSE Result(m, Undefined, TRUE)

setPartOpacityById(m, partId, opacity) ==
    LET r == getPartIndex(m, partId) IN
    IF Negative(r.ret) THEN Result(r.m, Undefined, FALSE)
    ELSE setPartOpacityByIndex(r.m, r.ret, opacity)

getPartOpacityByIndex(m, partIndex) ==
    IF HasIndex(m.notExistPartOpacities, partIndex)
    THEN Result(m, m.notExistPartOpacities[partIndex], FALSE)
    ELSE IF InRange(partIndex, partCount)
    THEN Result(m, m.partOpacities[partIndex.n + 1], FALSE)
    ELSE Result(m, Undefined, TRUE)

getPartOpacityById(m, partId) ==
    LET r == getPartIndex(m, partId) IN
    IF Negative(r.ret) THEN Result(r.m, Zero, FALSE)
    ELSE getPartOpacityByIndex(r.m, r.ret)

---------------------------------------------------------------------------
(* CubismModel: per-drawable colour override flags.  A flag is returned as *)
(* the boolean it is; drawableindex is 0-based as in the code.             *)

getOverwriteFlagForDrawableMultiplyColors(m, drawableindex) ==
    Result(m, m.userMultiplyColors[drawableindex + 1].isOverwritten, FALSE)

getOverwriteFlagForDrawableScreenColors(m, drawableindex) ==
    Result(m, m.userMultiplyColors[drawableindex + 1].isOverwritten, FALSE)

setOverwriteFlagForDrawableMultiplyColors(m, drawableindex, value) ==
    Result([m EXCEPT !.userMultiplyColors[drawableindex + 1].isOverwritten = value],
           Undefined, FALSE)

setOverwriteFlagForDrawableScreenColors(m, drawableindex, value) ==
    Result([m EXCEPT !.userScreenColors[drawableindex + 1].isOverwritten = value],
           Undefined, FALSE)

---------------------------------------------------------------------------
(* CubismModel: the colour a drawable is rendered with.  A colour is the   *)
(* record [R, G, B, A] of a CubismTextureColor.                            *)

RGBA(r, g, b, a) == [R |-> r, G |-> g, B |-> b, A |-> a]

\* _model.drawables.multiplyColors / screenColors: what the engine computed
multiplyColors ==
    <<RGBA(Number(1, 2), Number(1, 2), Number(1, 2), One),
      RGBA(Number(1, 4), Number(1, 4), Number(1, 4), One)>>

screenColors ==
    <<RGBA(Number(1, 2), Zero, Number(1, 2), One),
      RGBA(Number(1, 4), Zero, Number(1, 4), One)>>

getDrawableMultiplyColor(m, drawableIndex) ==
    Result(m, multiplyColors[drawableIndex + 1], FALSE)

getDrawableScreenColor(m, drawableIndex) ==
    Result(m, screenColors[drawableIndex + 1], FALSE)

getOverwriteFlagForModelMultiplyColors(m) ==
    Result(m, m.isOverwrittenModelMultiplyColors, FALSE)

getOverwriteFlagForModelScreenColors(m) ==
    Result(m, m.isOverwrittenModelScreenColors, FALSE)

setOverwriteFlagForModelMultiplyColors(m, value) ==
    Result([m EXCEPT !.isOverwrittenModelMultiplyColors = value], Undefined, FALSE)

setOverwriteFlagForModelScreenColors(m, value) ==
    Result([m EXCEPT !.isOverwrittenModelScreenColors = value], Undefined, FALSE)

setMultiplyColorByRGBA(m, index, color) ==
    Result([m EXCEPT !.userMultiplyColors[index + 1].Color = color], Undefined, FALSE)

setScreenColorByRGBA(m, index, color) ==
    Result([m EXCEPT !.userScreenColors[index + 1].Color = color], Undefined, FALSE)

getMultiplyColor(m, index) ==
    IF \/ getOverwriteFlagForModelMultiplyColors(m).ret
       \/ getOverwriteFlagForDrawableMultiplyColors(m, index).ret
    THEN Result(m, m.userMultiplyColors[index + 1].Color, FALSE)
    ELSE getDrawableMultiplyColor(m, index)

getScreenColor(m, index) ==
    IF \/ getOverwriteFlagForModelScreenColors(m).ret
       \/ getOverwriteFlagForDrawableScreenColors(m, index).ret
    THEN Result(m, m.userScreenColors[index + 1].Color, FALSE)
    ELSE getDrawableScreenColor(m, index)

---------------------------------------------------------------------------
(* Construction *)

\* new DrawableColorData(), then the colour initialize() sets
DrawableColorData(color) == [isOverwritten |-> FALSE, Color |-> color]

\* constructor(model) followed by initialize(), for an engine model whose
\* current parameter values are `values` and part opacities `opacities`
constructor(values, opacities) ==
    [parameterValues |-> values,
     partOpacities |-> opacities,
     savedParameters |-> <<>>,
     isOverwrittenModelMultiplyColors |-> FALSE,
     isOverwrittenModelScreenColors |-> FALSE,
     userMultiplyColors |->
         [i \in 1..drawableCount |-> DrawableColorData(RGBA(One, One, One, One))],
     userScreenColors |->
         [i \in 1..drawableCount |-> DrawableColorData(RGBA(Zero, Zero, Zero, One))],
     notExistPartId |-> EmptyObject,
     notExistParameterId |-> EmptyObject,
     notExistParameterValues |-> EmptyObject,
     notExistPartOpacities |-> EmptyObject]

---------------------------------------------------------------------------
(* CubismExpressionMotion.  An expression asset (exp3.json) is the record  *)
(* [FadeInTime, FadeOutTime, Parameters], a missing key being Undefined    *)
(* (Parameters: <<>>); an entry of Parameters is [Id, Value, Blend], a     *)
(* missing Blend being "".  A motion object is the record                  *)
(* [parameters, fadeWeight, fadeInSeconds, fadeOutSeconds, offsetSeconds,  *)
(* duration]; the last four are the fields of the ACubismMotion base.      *)

DefaultFadeTime == One

DefaultAdditiveValue == Zero

DefaultMultiplyValue == One

\* enum ExpressionBlendType
Additive == 0

Multiply == 1

Overwrite == 2

\* the value null of a parameterId; no identifier equals it
Null == "(null)"

\* the asset handed to create() when there is none
NoJson == <<>>

\* new CubismExpressionMotion(): the base constructor, then lines 291-292
CubismExpressionMotion ==
    [parameters |-> <<>>,
     fadeWeight |-> Zero,
     fadeInSeconds |-> Int2Num(-1),
     fadeOutSeconds |-> Int2Num(-1),
     offsetSeconds |-> Zero,
     duration |-> Int2Num(-1)]

\* the blend type parse() gives a Blend string
BlendTypeOf(blend) ==
    IF blend = "" \/ blend = "Add" THEN Additive
    ELSE IF blend = "Multiply" THEN Multiply
    ELSE IF blend = "Overwrite" THEN Overwrite
    ELSE Additive

parse(motion, json) ==
    IF json = NoJson THEN motion
    ELSE [motion EXCEPT
             !.fadeInSeconds =
                 IF json.FadeInTime # Undefined THEN json.FadeInTime ELSE DefaultFadeTime,
             !.fadeOutSeconds =
                 IF json.FadeOutTime # Undefined THEN json.FadeOutTime ELSE DefaultFadeTime,
             !.parameters =
                 @ \o [i \in 1..Len(json.Parameters) |->
                          [parameterId |-> json.Parameters[i].Id,
                           blendType |-> BlendTypeOf(json.Parameters[i].Blend),
                           value |-> json.Parameters[i].Value]]]

create(json) == parse(CubismExpressionMotion, json)

getExpressionParameters(motion) == motion.parameters

getDuration(motion) == motion.duration

\* source * (1 - fadeWeight) + destination * fadeWeight
calculateValue(motion, source, destination) ==
    Plus(Times(source, Minus(One, motion.fadeWeight)),
         Times(destination, motion.fadeWeight))

\* new CubismMotionQueueEntry()
CubismMotionQueueEntry ==
    [available |-> TRUE,
     finished |-> FALSE,
     started |-> FALSE,
     startTime |-> Int2Num(-1),
     fadeInStartTime |-> Zero,
     endTime |-> Int2Num(-1)]

\* x brought into [0, 1]
Clamp01(x) == IF Less(x, Zero) THEN Zero ELSE IF Less(One, x) THEN One ELSE x

\* updateFadeWeight: a linear ramp from 0 to 1 over fadeInSeconds from the
\* fade-in start, times a linear ramp from 1 to 0 over the fadeOutSeconds
\* before a non-negative end time; it changes nothing of the entry's
\* lifecycle fields
updateFadeWeight(motion, motionQueueEntry, time) ==
    LET fadeIn ==
            IF NumEq(motion.fadeInSeconds, Zero) THEN One
            ELSE Clamp01(Divide(Minus(time, motionQueueEntry.fadeInStartTime),
                                motion.fadeInSeconds))
        fadeOut ==
            IF NumEq(motion.fadeOutSeconds, Zero) \/ Less(motionQueueEntry.endTime, Zero)
            THEN One
            ELSE Clamp01(Divide(Minus(motionQueueEntry.endTime, time),
                                motion.fadeOutSeconds))
    IN Times(fadeIn, fadeOut)

\* Started giving start + duration as the end time for every duration
Started_EndsAtStart(motion, motionQueueEntry, time) ==
    IF motionQueueEntry.started THEN motionQueueEntry
    ELSE LET startTime == Minus(time, motion.offsetSeconds)
         IN [motionQueueEntry EXCEPT
                !.started = TRUE,
                !.startTime = startTime,
                !.fadeInStartTime = time,
                !.endTime = IF Less(@, Zero)
                            THEN Plus(startTime, getDuration(motion)) ELSE @]

\* Started assigning the end time whatever the current end time is
Started_OverwritesEndTime(motion, motionQueueEntry, time) ==
    IF motionQueueEntry.started THEN motionQueueEntry
    ELSE LET startTime == Minus(time, motion.offsetSeconds)
             duration == getDuration(motion)
         IN [motionQueueEntry EXCEPT
                !.started = TRUE,
                !.startTime = startTime,
                !.fadeInStartTime = time,
                !.endTime = IF ~Less(Zero, duration) THEN Int2Num(-1)
                            ELSE Plus(startTime, duration)]

\* lines 107-119: the first blend call of a playback instance
Started(motion, motionQueueEntry, time) ==
    IF motionQueueEntry.started THEN motionQueueEntry
    ELSE LET startTime == Minus(time, motion.offsetSeconds)
             duration == getDuration(motion)
         IN [motionQueueEntry EXCEPT
                !.started = TRUE,
                !.startTime = startTime,
                !.fadeInStartTime = time,
                !.endTime =
                    IF Less(@, Zero)
                    THEN IF ~Less(Zero, duration) THEN Int2Num(-1)
                         ELSE Plus(startTime, duration)
                    ELSE @]

\* the search of lines 130-140 begun one entry late
RECURSIVE FindParameter_SkipFirst(_, _, _)
FindParameter_SkipFirst(expressionParameters, parameterId, j) ==
    IF j + 1 > Len(expressionParameters) THEN 0
    ELSE IF expressionParameters[j + 1].parameterId = parameterId THEN j + 1
    ELSE FindParameter_SkipFirst(expressionParameters, parameterId, j + 1)

\* lines 130-140: the position (from 1) of the first entry of the asset
\* with the identifier, or 0
RECURSIVE FindParameter(_, _, _)
FindParameter(expressionParameters, parameterId, j) ==
    IF j > Len(expressionParameters) THEN 0
    ELSE IF expressionParameters[j].parameterId = parameterId THEN j
    ELSE FindParameter(expressionParameters, parameterId, j + 1)

\* Triple leaving the overwrite channel as it is
Triple_KeepOverwrite(slot, additive, multiply, overwrite) ==
    [slot EXCEPT !.additiveValue = additive, !.multiplyValue = multiply]

Triple(slot, additive, multiply, overwrite) ==
    [slot EXCEPT !.additiveValue = additive,
                 !.multiplyValue = multiply,
                 !.overwriteValue = overwrite]

\* lines 122-202: the loop over the slots from slot i on; [m, values] are
\* the model and the accumulator when the loop (or the call) ends
RECURSIVE BlendSlots(_, _, _, _, _)
BlendSlots(motion, m, values, expressionIndex, i) ==
    IF i > Len(values) THEN [m |-> m, values |-> values]
    ELSE IF values[i].parameterId = Null
    THEN BlendSlots(motion, m, values, expressionIndex, i + 1)
    ELSE
    LET read == getParameterValueById(m, values[i].parameterId)
        currentParameterValue == read.ret
        \* line 127: the overwrite channel takes the model's value first
        slot == [values[i] EXCEPT !.overwriteValue = currentParameterValue]
        expressionParameters == getExpressionParameters(motion)
        parameterIndex == FindParameter(expressionParameters, slot.parameterId, 1)
    IN
    IF parameterIndex = 0
    THEN LET unreferenced ==
                 IF expressionIndex = 0
                 THEN Triple(slot, DefaultAdditiveValue, DefaultMultiplyValue,
                             currentParameterValue)
                 ELSE Triple(slot,
                             calculateValue(motion, slot.additiveValue,
                                            DefaultAdditiveValue),
                             calculateValue(motion, slot.multiplyValue,
                                            DefaultMultiplyValue),
                             calculateValue(motion, slot.overwriteValue,
                                            currentParameterValue))
         IN BlendSlots(motion, read.m, [values EXCEPT ![i] = unreferenced],
                       expressionIndex, i + 1)
    ELSE
    LET value == expressionParameters[parameterIndex].value
        blendType == expressionParameters[parameterIndex].blendType
        newAdditiveValue ==
            IF blendType = Additive THEN value ELSE DefaultAdditiveValue
        newMultiplyValue ==
            IF blendType = Multiply THEN value ELSE DefaultMultiplyValue
        newOverwriteValue ==
            IF blendType = Overwrite THEN value ELSE currentParameterValue
        referenced ==
            IF expressionIndex = 0
            THEN Triple(slot, newAdditiveValue, newMultiplyValue, newOverwriteValue)
            ELSE Triple(slot,
                        calculateValue(motion, slot.additiveValue, newAdditiveValue),
                        calculateValue(motion, slot.multiplyValue, newMultiplyValue),
                        calculateValue(motion, slot.overwriteValue, newOverwriteValue))
    IN
    IF blendType \notin {Additive, Multiply, Overwrite}
    THEN \* default: return
         [m |-> read.m, values |-> [values EXCEPT ![i] = slot]]
    ELSE BlendSlots(motion, read.m, [values EXCEPT ![i] = referenced],
                    expressionIndex, i + 1)

\* calculateExpressionParameters without the test of isAvailable()
calculateExpressionParameters_Unguarded(motion, m, time, motionQueueEntry, values, expressionIndex) ==
    LET entry == Started(motion, motionQueueEntry, time)
        faded == [motion EXCEPT !.fadeWeight = updateFadeWeight(motion, entry, time)]
        blended == BlendSlots(faded, m, values, expressionIndex, 1)
    IN [motion |-> faded, m |-> blended.m, entry |-> entry, values |-> blended.values]

\* calculateExpressionParameters that also applies the additive value of
\* the first slot to the model, as doUpdateParameters does with an entry
calculateExpressionParameters_AppliesToModel(motion, m, time, motionQueueEntry, values, expressionIndex) ==
    IF ~motionQueueEntry.available
    THEN [motion |-> motion, m |-> m, entry |-> motionQueueEntry, values |-> values]
    ELSE LET entry == Started(motion, motionQueueEntry, time)
             faded == [motion EXCEPT !.fadeWeight = updateFadeWeight(motion, entry, time)]
             blended == BlendSlots(faded, m, values, expressionIndex, 1)
         IN [motion |-> faded,
             m |-> IF Len(blended.values) = 0 \/ blended.values[1].parameterId = Null
                   THEN blended.m
                   ELSE addParameterValueById(blended.m, blended.values[1].parameterId,
                                              blended.values[1].additiveValue, One).m,
             entry |-> entry,
             values |-> blended.values]

\* the objects after calculateExpressionParameters(model, userTimeSeconds,
\* motionQueueEntry, expressionParameterValues, expressionIndex)
calculateExpressionParameters(motion, m, time, motionQueueEntry, values, expressionIndex) ==
    IF ~motionQueueEntry.available
    THEN [motion |-> motion, m |-> m, entry |-> motionQueueEntry, values |-> values]
    ELSE LET entry == Started(motion, motionQueueEntry, time)
             faded == [motion EXCEPT !.fadeWeight = updateFadeWeight(motion, entry, time)]
             blended == BlendSlots(faded, m, values, expressionIndex, 1)
         IN [motion |-> faded, m |-> blended.m, entry |-> entry,
             values |-> blended.values]

\* the apply step of the caller, for the slots from slot i on: overwrite,
\* then additive, then multiply
RECURSIVE ApplySlots(_, _, _)
ApplySlots(m, values, i) ==
    IF i > Len(values) THEN m
    ELSE IF values[i].parameterId = Null THEN ApplySlots(m, values, i + 1)
    ELSE LET set == setParameterValueById(m, values[i].parameterId,
                                          values[i].overwriteValue, One)
             add == addParameterValueById(set.m, values[i].parameterId,
                                          values[i].additiveValue, One)
             mul == multiplyParameterValueById(add.m, values[i].parameterId,
                                               values[i].multiplyValue, One)
         IN ApplySlots(mul.m, values, i + 1)

---------------------------------------------------------------------------
(* CubismMoc.  A payload (mocBytes) is the record of what the engine makes *)
(* of it: [name, consistency, loads, version] with consistency the number  *)
(* Moc.prototype.hasMocConsistency returns, loads whether                  *)
(* Moc.fromArrayBuffer returns a Moc (else null), and version the number   *)
(* csmGetMocVersion returns.  An operator gives [thrown, value, calls]:    *)
(* the message of the Error thrown ("" when none), the value returned and  *)
(* the engine calls made, in order.                                        *)

\* no CubismMoc object
NoMoc == <<>>

Returned(value) == [thrown |-> "", value |-> value]

Thrown(message) == [thrown |-> message, value |-> NoMoc]

EngineCall(fn, mocBytes) == [fn |-> fn, mocBytes |-> mocBytes.name]

Outcome(result, calls) ==
    [thrown |-> result.thrown, value |-> result.value, calls |-> calls]

\* isConsistent === 1 ? true : false
hasMocConsistency(mocBytes) == mocBytes.consistency = 1

\* the private constructor, then the version of line 38
NewCubismMoc(mocBytes) ==
    [moc |-> mocBytes.name, modelCount |-> 0, mocVersion |-> mocBytes.version]

\* CubismMoc.create that hands the payload to the loader before the check
createMoc_LoadsFirst(mocBytes, shouldCheckMocConsistency) ==
    IF shouldCheckMocConsistency /\ ~hasMocConsistency(mocBytes)
    THEN Outcome(Thrown("Inconsistent MOC3."),
                 <<EngineCall("fromArrayBuffer", mocBytes),
                   EngineCall("hasMocConsistency", mocBytes)>>)
    ELSE LET checks == IF shouldCheckMocConsistency
                       THEN <<EngineCall("hasMocConsistency", mocBytes)>> ELSE <<>>
             loads == <<EngineCall("fromArrayBuffer", mocBytes)>>
         IN IF mocBytes.loads
            THEN Outcome(Returned(NewCubismMoc(mocBytes)),
                         loads \o checks \o <<EngineCall("csmGetMocVersion", mocBytes)>>)
            ELSE Outcome(Thrown("Failed to CubismMoc.create()."), loads \o checks)

\* CubismMoc.create
createMoc(mocBytes, shouldCheckMocConsistency) ==
    IF shouldCheckMocConsistency /\ ~hasMocConsistency(mocBytes)
    THEN Outcome(Thrown("Inconsistent MOC3."),
                 <<EngineCall("hasMocConsistency", mocBytes)>>)
    ELSE LET checks == IF shouldCheckMocConsistency
                       THEN <<EngineCall("hasMocConsistency", mocBytes)>> ELSE <<>>
             loads == <<EngineCall("fromArrayBuffer", mocBytes)>>
         IN IF mocBytes.loads
            THEN Outcome(Returned(NewCubismMoc(mocBytes)),
                         checks \o loads \o <<EngineCall("csmGetMocVersion", mocBytes)>>)
            ELSE Outcome(Thrown("Failed to CubismMoc.create()."), checks \o loads)

\* createModel on a CubismMoc object, the engine's Model.fromMoc giving a
\* model or null
createModel(object, fromMoc) ==
    IF fromMoc THEN Returned([object EXCEPT !.modelCount = @ + 1])
    ELSE [thrown |-> "Unknown error", value |-> object]

\* deleteModel(model), model being an object or null
deleteModel(object, isModel) ==
    IF isModel THEN [object EXCEPT !.modelCount = @ - 1] ELSE object

---------------------------------------------------------------------------
(* Public calls *)

NoIndex == Num(-1)

Call(op, id, index, value, weight, r) ==
    [op |-> op, id |-> id, index |-> index, value |-> value, weight |-> weight,
     ret |-> r.ret, failed |-> r.failed]

Called(op, id, index, value, weight, r) ==
    /\ remaining > 0
    /\ atSave' = IF op = "saveParameters" THEN this.parameterValues ELSE atSave
    /\ remaining' = remaining - 1
    /\ this' = r.m
    /\ call' = Call(op, id, index, value, weight, r)
    /\ UNCHANGED expressionVars
    /\ UNCHANGED mocVars

Recorded(order, id) == \E i \in 1..Len(order) : order[i] = id

\* a public call that resolved parameter identifier id to index
ResolvedParameter(id, index) ==
    /\ resolvedParameter' = PutProperty(resolvedParameter, id, index)
    /\ unknownParameterOrder' =
           IF Scan(parameterIds, id, 0) < 0 /\ ~Recorded(unknownParameterOrder, id)
           THEN Append(unknownParameterOrder, id) ELSE unknownParameterOrder
    /\ UNCHANGED <<resolvedPart, unknownPartOrder, overwriteSet>>

ResolvedPart(id, index) ==
    /\ resolvedPart' = PutProperty(resolvedPart, id, index)
    /\ unknownPartOrder' =
           IF Scan(partIds, id, 0) < 0 /\ ~Recorded(unknownPartOrder, id)
           THEN Append(unknownPartOrder, id) ELSE unknownPartOrder
    /\ UNCHANGED <<resolvedParameter, unknownParameterOrder, overwriteSet>>

ResolvedNothing ==
    UNCHANGED <<resolvedParameter, unknownParameterOrder, resolvedPart,
                unknownPartOrder, overwriteSet>>

\* the indices a caller holds: the real ones and those getParameterIndex gave out
ParameterIndices ==
    {Num(i) : i \in 0..(parameterCount - 1)} \cup DOMAIN this.notExistParameterValues

PartIndices ==
    {Num(i) : i \in 0..(partCount - 1)} \cup DOMAIN this.notExistPartOpacities

GetParameterIndex(id) ==
    LET r == getParameterIndex(this, id) IN
    /\ Called("getParameterIndex", id, r.ret, Zero, Zero, r)
    /\ ResolvedParameter(id, r.ret)

GetParameterValueByIndex(index) ==
    /\ Called("getParameterValueByIndex", "", index, Zero, Zero,
              getParameterValueByIndex(this, index))
    /\ ResolvedNothing

GetParameterValueById(id) ==
    /\ Called("getParameterValueById", id, getParameterIndex(this, id).ret, Zero, Zero,
              getParameterValueById(this, id))
    /\ ResolvedParameter(id, getParameterIndex(this, id).ret)

SetParameterValueByIndex(index, value, weight) ==
    /\ Called("setParameterValueByIndex", "", index, value, weight,
              setParameterValueByIndex(this, index, value, weight))
    /\ ResolvedNothing

SetParameterValueById(id, value, weight) ==
    /\ Called("setParameterValueById", id, getParameterIndex(this, id).ret, value, weight,
              setParameterValueById(this, id, value, weight))
    /\ ResolvedParameter(id, getParameterIndex(this, id).ret)

AddParameterValueByIndex(index, value, weight) ==
    /\ Called("addParameterValueByIndex", "", index, value, weight,
              addParameterValueByIndex(this, index, value, weight))
    /\ ResolvedNothing

AddParameterValueById(id, value, weight) ==
    /\ Called("addParameterValueById", id, getParameterIndex(this, id).ret, value, weight,
              addParameterValueById(this, id, value, weight))
    /\ ResolvedParameter(id, getParameterIndex(this, id).ret)

MultiplyParameterValueByIndex(index, value, weight) ==
    /\ Called("multiplyParameterValueByIndex", "", index, value, weight,
              multiplyParameterValueByIndex(this, index, value, weight))
    /\ ResolvedNothing

MultiplyParameterValueById(id, value, weight) ==
    /\ Called("multiplyParameterValueById", id, getParameterIndex(this, id).ret, value,
              weight, multiplyParameterValueById(this, id, value, weight))
    /\ ResolvedParameter(id, getParameterIndex(this, id).ret)

SaveParameters ==
    /\ Called("saveParameters", "", NoIndex, Zero, Zero, saveParameters(this))
    /\ ResolvedNothing

LoadParameters ==
    /\ Called("loadParameters", "", NoIndex, Zero, Zero, loadParameters(this))
    /\ ResolvedNothing

GetPartIndex(id) ==
    LET r == getPartIndex(this, id) IN
    /\ Called("getPartIndex", id, r.ret, Zero, Zero, r)
    /\ ResolvedPart(id, r.ret)

SetPartOpacityByIndex(index, opacity) ==
    /\ Called("setPartOpacityByIndex", "", index, opacity, Zero,
              setPartOpacityByIndex(this, index, opacity))
    /\ ResolvedNothing

SetPartOpacityById(id, opacity) ==
    /\ Called("setPartOpacityById", id, getPartIndex(this, id).ret, opacity, Zero,
              setPartOpacityById(this, id, opacity))
    /\ ResolvedPart(id, getPartIndex(this, id).ret)

GetPartOpacityByIndex(index) ==
    /\ Called("getPartOpacityByIndex", "", index, Zero, Zero,
              getPartOpacityByIndex(this, index))
    /\ ResolvedNothing

GetPartOpacityById(id) ==
    /\ Called("getPartOpacityById", id, getPartIndex(this, id).ret, Zero, Zero,
              getPartOpacityById(this, id))
    /\ ResolvedPart(id, getPartIndex(this, id).ret)

Drawables == 0..(drawableCount - 1)

GetOverwriteFlagForDrawableMultiplyColors(i) ==
    /\ Called("getOverwriteFlagForDrawableMultiplyColors", "", Num(i), Zero, Zero,
              getOverwriteFlagForDrawableMultiplyColors(this, i))
    /\ ResolvedNothing

GetOverwriteFlagForDrawableScreenColors(i) ==
    /\ Called("getOverwriteFlagForDrawableScreenColors", "", Num(i), Zero, Zero,
              getOverwriteFlagForDrawableScreenColors(this, i))
    /\ ResolvedNothing

SetOverwriteFlagForDrawableMultiplyColors(i, value) ==
    /\ Called("setOverwriteFlagForDrawableMultiplyColors", "", Num(i), Zero, Zero,
              setOverwriteFlagForDrawableMultiplyColors(this, i, value))
    /\ overwriteSet' = [overwriteSet EXCEPT !.multiply[i] = value]
    /\ UNCHANGED <<resolvedParameter, unknownParameterOrder, resolvedPart,
                   unknownPartOrder>>

SetOverwriteFlagForDrawableScreenColors(i, value) ==
    /\ Called("setOverwriteFlagForDrawableScreenColors", "", Num(i), Zero, Zero,
              setOverwriteFlagForDrawableScreenColors(this, i, value))
    /\ overwriteSet' = [overwriteSet EXCEPT !.screen[i] = value]
    /\ UNCHANGED <<resolvedParameter, unknownParameterOrder, resolvedPart,
                   unknownPartOrder>>

SetOverwriteFlagForModelMultiplyColors(value) ==
    /\ Called("setOverwriteFlagForModelMultiplyColors", "", NoIndex, Zero, Zero,
              setOverwriteFlagForModelMultiplyColors(this, value))
    /\ ResolvedNothing

SetOverwriteFlagForModelScreenColors(value) ==
    /\ Called("setOverwriteFlagForModelScreenColors", "", NoIndex, Zero, Zero,
              setOverwriteFlagForModelScreenColors(this, value))
    /\ ResolvedNothing

SetMultiplyColorByRGBA(i, color) ==
    /\ Called("setMultiplyColorByRGBA", "", Num(i), Zero, Zero,
              setMultiplyColorByRGBA(this, i, color))
    /\ ResolvedNothing

SetScreenColorByRGBA(i, color) ==
    /\ Called("setScreenColorByRGBA", "", Num(i), Zero, Zero,
              setScreenColorByRGBA(this, i, color))
    /\ ResolvedNothing

GetMultiplyColor(i) ==
    /\ Called("getMultiplyColor", "", Num(i), Zero, Zero, getMultiplyColor(this, i))
    /\ ResolvedNothing

GetScreenColor(i) ==
    /\ Called("getScreenColor", "", Num(i), Zero, Zero, getScreenColor(this, i))
    /\ ResolvedNothing

\* the playback instances
Instances == 1..Len(motions)

\* an expression step of the caller: what it leaves of the registry's
\* observations, and the record of the call (motion: the instance it was for)
ExpressionCall(op, k, expressionIndex, time, weight) ==
    /\ remaining > 0
    /\ remaining' = remaining - 1
    /\ call' = [op |-> op, id |-> "", index |-> Num(expressionIndex), value |-> time,
                weight |-> weight, ret |-> Undefined, failed |-> FALSE, motion |-> k]
    /\ UNCHANGED <<atSave, resolvedParameter, unknownParameterOrder, resolvedPart,
                   unknownPartOrder, overwriteSet>>
    /\ UNCHANGED mocVars

CalculateExpressionParameters(k, expressionIndex, time) ==
    LET r == calculateExpressionParameters(motions[k], this, time, entries[k],
                                           expressionParameterValues, expressionIndex)
    IN /\ ~Less(time, userTimeSeconds)
       /\ ExpressionCall("calculateExpressionParameters", k, expressionIndex, time,
                         r.motion.fadeWeight)
       /\ motions' = [motions EXCEPT ![k] = r.motion]
       /\ entries' = [entries EXCEPT ![k] = r.entry]
       /\ this' = r.m
       /\ expressionParameterValues' = r.values
       /\ userTimeSeconds' = time

\* the apply step of the frame; its record names the instance and the
\* expressionIndex of the blend call it follows at once (instance 0: none)
Apply ==
    /\ IF call.op = "calculateExpressionParameters"
       THEN ExpressionCall("apply", call.motion, call.index.n, userTimeSeconds, One)
       ELSE ExpressionCall("apply", 0, 0, userTimeSeconds, One)
    /\ this' = ApplySlots(this, expressionParameterValues, 1)
    /\ UNCHANGED expressionVars

\* the scheduler ends a playback instance (it finished or was stopped)
SetIsFinished(k) ==
    /\ entries[k].available
    /\ ExpressionCall("setIsFinished", k, 0, userTimeSeconds, Zero)
    /\ entries' = [entries EXCEPT ![k].finished = TRUE, ![k].available = FALSE]
    /\ UNCHANGED <<this, motions, expressionParameterValues, userTimeSeconds>>

\* the scheduler gives a playback instance an end time before it starts
SetEndTime(k, endTime) ==
    /\ ~entries[k].started
    /\ ExpressionCall("setEndTime", k, 0, endTime, Zero)
    /\ entries' = [entries EXCEPT ![k].endTime = endTime]
    /\ UNCHANGED <<this, motions, expressionParameterValues, userTimeSeconds>>

\* a caller appends an entry to the array getExpressionParameters() returns
PushExpressionParameter(k, item) ==
    /\ ExpressionCall("getExpressionParameters.push", k, 0, userTimeSeconds, Zero)
    /\ motions' = [motions EXCEPT ![k].parameters = Append(@, item)]
    /\ UNCHANGED <<this, entries, expressionParameterValues, userTimeSeconds>>

\* a step on a CubismMoc: what it leaves of the other objects
MocCall ==
    /\ remaining > 0
    /\ remaining' = remaining - 1
    /\ UNCHANGED <<this, atSave, resolvedParameter, unknownParameterOrder,
                   resolvedPart, unknownPartOrder, overwriteSet>>
    /\ UNCHANGED expressionVars

Create(mocBytes, shouldCheckMocConsistency) ==
    LET r == createMoc(mocBytes, shouldCheckMocConsistency)
    IN /\ MocCall
       /\ call' = [op |-> "CubismMoc.create", mocBytes |-> mocBytes,
                   shouldCheckMocConsistency |-> shouldCheckMocConsistency]
       /\ cubismMoc' = [thrown |-> r.thrown, value |-> r.value]
       /\ engineCalls' = engineCalls \o r.calls

CreateModel(fromMoc) ==
    /\ cubismMoc.value # NoMoc
    /\ MocCall
    /\ call' = [op |-> "createModel", fromMoc |-> fromMoc]
    /\ cubismMoc' = createModel(cubismMoc.value, fromMoc)
    /\ engineCalls' = Append(engineCalls, [fn |-> "fromMoc", mocBytes |-> cubismMoc.value.moc])

DeleteModel(isModel) ==
    /\ cubismMoc.value # NoMoc
    /\ MocCall
    /\ call' = [op |-> "deleteModel", isModel |-> isModel]
    /\ cubismMoc' = [cubismMoc EXCEPT !.value = deleteModel(@, isModel)]
    /\ UNCHANGED engineCalls

---------------------------------------------------------------------------
(* Specifications *)

\* an expression the caller plays: the asset, the offset it is given and
\* the duration the motion declares
Expression(json, offsetSeconds, duration) ==
    [create(json) EXCEPT !.offsetSeconds = offsetSeconds, !.duration = duration]

\* the accumulator the caller sets up on model m for the identifiers from
\* ids[i] on, and the model after it read their values
RECURSIVE Slots(_, _, _)
Slots(m, ids, i) ==
    IF i > Len(ids) THEN [m |-> m, values |-> <<>>]
    ELSE LET read == getParameterValueById(m, ids[i])
             rest == Slots(read.m, ids, i + 1)
         IN [m |-> rest.m,
             values |-> <<[parameterId |-> ids[i],
                           additiveValue |-> DefaultAdditiveValue,
                           multiplyValue |-> DefaultMultiplyValue,
                           overwriteValue |-> read.ret]>> \o rest.values]

\* the model as constructed from an engine model with the given current
\* values, the expressions created and an accumulator: set.values are the
\* slots and set.m the model after the caller set them up
ConstructedFrom(values, opacities, budget, expressions, set) ==
    /\ this = set.m
    /\ call = Call("none", "", NoIndex, Zero, Zero,
                   Result(constructor(values, opacities), Undefined, FALSE))
    /\ resolvedParameter = EmptyObject
    /\ unknownParameterOrder = <<>>
    /\ resolvedPart = EmptyObject
    /\ unknownPartOrder = <<>>
    /\ overwriteSet = [multiply |-> [i \in Drawables |-> FALSE],
                       screen |-> [i \in Drawables |-> FALSE]]
    /\ atSave = <<>>
    /\ remaining = budget
    /\ motions = expressions
    /\ entries = [k \in 1..Len(expressions) |-> CubismMotionQueueEntry]
    /\ expressionParameterValues = set.values
    /\ userTimeSeconds = Zero
    /\ cubismMoc = Returned(NoMoc)
    /\ engineCalls = <<>>

\* the same with the accumulator the caller sets up by reading the model
ConstructedWith(values, opacities, budget, expressions, ids) ==
    ConstructedFrom(values, opacities, budget, expressions,
                    Slots(constructor(values, opacities), ids, 1))

\* the model alone
Constructed(values, opacities, budget) ==
    ConstructedWith(values, opacities, budget, <<>>, <<>>)

\* Parameter values: every writer, by index and by identifier.
MaxCalls == 2

InitialValues == {<<Int2Num(-1), One>>, <<Number(1, 2), Int2Num(2)>>}

InitialOpacities == <<One, One>>

Values == {Int2Num(-5), Number(1, 2), Int2Num(5)}

Weights == {Zero, Number(1, 2), One, Int2Num(2)}

AddValues == {Int2Num(-5), Number(1, 2)}

AddWeights == {Number(1, 2), One, Int2Num(2)}

Factors == {Int2Num(-5), Number(1, 2)}

MultiplyWeights == {Zero, Number(1, 2), One}

Ids == {"ParamA", "ParamX"}

IdValues == {Int2Num(-5), Int2Num(5)}

IdWeights == {Number(1, 2), One}

Init == \E values \in InitialValues : Constructed(values, InitialOpacities, MaxCalls)

Next ==
    \/ \E index \in ParameterIndices, value \in Values, weight \in Weights :
           SetParameterValueByIndex(index, value, weight)
    \/ \E id \in Ids, value \in IdValues, weight \in IdWeights :
           SetParameterValueById(id, value, weight)
    \/ \E index \in ParameterIndices, value \in AddValues, weight \in AddWeights :
           AddParameterValueByIndex(index, value, weight)
    \/ \E id \in Ids : AddParameterValueById(id, Number(1, 2), Number(1, 2))
    \/ \E index \in ParameterIndices, value \in Factors, weight \in MultiplyWeights :
           MultiplyParameterValueByIndex(index, value, weight)
    \/ \E id \in Ids : MultiplyParameterValueById(id, Int2Num(-5), One)
    \/ \E index \in ParameterIndices : GetParameterValueByIndex(index)
    \/ \E id \in Ids : GetParameterValueById(id)
    \/ SaveParameters
    \/ LoadParameters

Spec == Init /\ [][Next]_vars

---------------------------------------------------------------------------
(* Claims about parameter values (Spec) *)

SetOps == {"setParameterValueByIndex", "setParameterValueById"}

IsReal(index) == InRange(index, parameterCount)

\* minimum <= x <= maximum for the parameter at position i
Within(x, i) ==
    IsNum(x) /\ ~Less(x, minimumValues[i]) /\ ~Less(maximumValues[i], x)

ValuesWithin(m) == \A i \in 1..parameterCount : Within(m.parameterValues[i], i)

SavedWithin(m) ==
    \A i \in 1..Len(m.savedParameters) :
        i <= parameterCount => Within(m.savedParameters[i], i)

UnitWeight(w) == ~Less(w, Zero) /\ ~Less(One, w)

\* C2 as stated: whatever value and weight the writers are called with, and
\* across saveParameters / loadParameters, every real parameter's stored
\* value lies within its [minimum, maximum].
C2_RealValuesAlwaysWithinRange == ValuesWithin(this)

\* C2 as amended: from a state whose stored and saved real values lie within
\* range, every call leaves them within range, except a setParameterValue
\* call whose weight is outside [0, 1].
C2_RangeKeptForWeightsInUnitInterval ==
    [][(ValuesWithin(this) /\ SavedWithin(this)
        /\ ~(call'.op \in SetOps /\ ~UnitWeight(call'.weight)))
       => (ValuesWithin(this') /\ SavedWithin(this'))]_vars

\* a set call that interpolated (weight 1/2) from a value beyond the maximum
C2_Witness ==
    /\ call.op \in SetOps
    /\ IsReal(call.index)
    /\ call.weight = Number(1, 2)
    /\ Less(maximumValues[call.index.n + 1], call.value)
    /\ ValuesWithin(this)
    /\ Len(this.savedParameters) > 0

\* the stored value of the real parameter a call addressed, before the call
StoredBefore == this.parameterValues[call'.index.n + 1]

StoredAfter == this'.parameterValues[call'.index.n + 1]

\* C3 as stated: on a real parameter with stored value s, a set call with
\* weight w < 1 stores clamp(s*(1-w) + v*w): the interpolation uses the
\* unclamped v and the result is clamped.
C3_InterpolatesThenClamps ==
    [][(call'.op \in SetOps /\ IsReal(call'.index) /\ Less(call'.weight, One))
       => StoredAfter =
              ClampValue(call'.index,
                         Plus(Times(StoredBefore, Minus(One, call'.weight)),
                              Times(call'.value, call'.weight)))]_vars

\* C3 as amended: the call stores s*(1-w) + clamp(v)*w: v is clamped first,
\* the interpolation uses the clamped v, and its result is stored unclamped.
C3_ClampsThenInterpolates ==
    [][(call'.op \in SetOps /\ IsReal(call'.index) /\ Less(call'.weight, One))
       => StoredAfter =
              Plus(Times(StoredBefore, Minus(One, call'.weight)),
                   Times(ClampValue(call'.index, call'.value), call'.weight))]_vars

\* a set call with weight 1/2 and a value beyond the maximum, on a real parameter
\* whose stored value is now strictly inside the range
C3_Witness ==
    /\ call.op \in SetOps
    /\ IsReal(call.index)
    /\ call.weight = Number(1, 2)
    /\ Less(maximumValues[call.index.n + 1], call.value)
    /\ Less(this.parameterValues[call.index.n + 1], maximumValues[call.index.n + 1])

SameSet(c1, c2) ==
    /\ c1.op \in SetOps /\ c2.op \in SetOps
    /\ c1.index = c2.index /\ c1.value = c2.value
    /\ NumEq(c1.weight, One) /\ NumEq(c2.weight, One)

\* C4: a set call with weight 1 stores clamp(v) on a real parameter (5 gives
\* 1 and -5 gives -1 for minimum -1, maximum 1) and v itself on a shadow
\* index, whatever was stored; the same call made again changes nothing.
C4_WeightOneReplaces ==
    [][/\ (call'.op \in SetOps /\ NumEq(call'.weight, One) /\ IsReal(call'.index))
          => /\ StoredAfter = ClampValue(call'.index, call'.value)
             /\ Within(StoredAfter, call'.index.n + 1)
             /\ (call'.index = Num(0) /\ call'.value = Int2Num(5)) => StoredAfter = One
             /\ (call'.index = Num(0) /\ call'.value = Int2Num(-5))
                    => StoredAfter = Int2Num(-1)
       /\ (call'.op \in SetOps /\ NumEq(call'.weight, One)
           /\ HasIndex(this'.notExistParameterValues, call'.index))
          => this'.notExistParameterValues[call'.index] = call'.value
       /\ SameSet(call, call') => this' = this]_vars

\* the same weight-1 set made twice in a row, on a real and on a shadow index
C4_Witness ==
    /\ call.op \in SetOps
    /\ NumEq(call.weight, One)
    /\ remaining = 0
    /\ \/ IsReal(call.index) /\ call.value = Int2Num(-5)
          /\ this.parameterValues[call.index.n + 1] = minimumValues[call.index.n + 1]
       \/ HasIndex(this.notExistParameterValues, call.index)
          /\ this.notExistParameterValues[call.index] = Int2Num(5)

\* the object after storing x at index, clamped when index is real
Stored(m, index, x) ==
    IF HasIndex(m.notExistParameterValues, index)
    THEN [m EXCEPT !.notExistParameterValues[index] = x]
    ELSE [m EXCEPT !.parameterValues[index.n + 1] = ClampValue(index, x)]

ValueAt(m, index) ==
    IF HasIndex(m.notExistParameterValues, index)
    THEN m.notExistParameterValues[index]
    ELSE m.parameterValues[index.n + 1]

\* C6: on every real or shadow index, add(i, d, w) leaves the object as
\* set(i, get(i) + d*w, 1) does, and multiply(i, f, w) as
\* set(i, get(i) * (1 + (f-1)*w), 1); a multiply with weight 0 leaves a value
\* that is within range unchanged and with weight 1 stores clamp(get(i)*f).
C6_AddAndMultiplyAreSets ==
    [][/\ call'.op = "addParameterValueByIndex"
          => LET x == Plus(ValueAt(this, call'.index),
                           Times(call'.value, call'.weight))
             IN /\ this' = setParameterValueByIndex(this, call'.index, x, One).m
                /\ this' = Stored(this, call'.index, x)
       /\ call'.op = "multiplyParameterValueByIndex"
          => LET x == Times(ValueAt(this, call'.index),
                            Plus(One, Times(Minus(call'.value, One), call'.weight)))
             IN /\ this' = setParameterValueByIndex(this, call'.index, x, One).m
                /\ this' = Stored(this, call'.index, x)
                /\ (call'.weight = Zero
                    /\ (IsReal(call'.index)
                        => Within(ValueAt(this, call'.index), call'.index.n + 1)))
                   => this' = this
                /\ call'.weight = One
                   => this' = Stored(this, call'.index,
                                     Times(ValueAt(this, call'.index), call'.value))]_vars

\* an add with weight 1/2 on a shadow index that already held a value
C6_Witness ==
    /\ call.op = "addParameterValueByIndex"
    /\ call.weight = Number(1, 2)
    /\ HasIndex(this.notExistParameterValues, call.index)
    /\ this.notExistParameterValues[call.index] \notin {Zero, Times(call.value, call.weight)}

---------------------------------------------------------------------------
(* Save and restore (SpecSave) *)

MaxSaveCalls == 4

SaveIds == {"ParamB", "ParamX"}

SaveValues == {Number(1, 2), Int2Num(5)}

InitSave == Constructed(defaultValues, InitialOpacities, MaxSaveCalls)

NextSave ==
    \/ SaveParameters
    \/ LoadParameters
    \/ \E id \in SaveIds, value \in SaveValues : SetParameterValueById(id, value, One)
    \/ \E index \in ParameterIndices :
           AddParameterValueByIndex(index, Int2Num(-1), Number(1, 2))
    \/ \E index \in ParameterIndices :
           MultiplyParameterValueByIndex(index, Int2Num(-1), One)

SpecSave == InitSave /\ [][NextSave]_vars

\* C7: loadParameters gives every real parameter the value it had at the
\* latest saveParameters, whatever was written in between, and changes
\* nothing else: the shadow values stay as the writes left them.  With no
\* earlier save it changes nothing.
C7_LoadRestoresRealValuesOnly ==
    [][call'.op = "loadParameters"
       => /\ this'.parameterValues =
                 (IF atSave = <<>> THEN this.parameterValues ELSE atSave)
          /\ this' = [this EXCEPT !.parameterValues = this'.parameterValues]
          /\ this'.notExistParameterValues = this.notExistParameterValues]_vars

\* a load that brought back saved values other than the initial ones while a
\* shadow parameter holds a value written to it
C7_Witness ==
    /\ call.op = "loadParameters"
    /\ atSave # <<>>
    /\ this.parameterValues = atSave
    /\ this.parameterValues # defaultValues
    /\ \E index \in DOMAIN this.notExistParameterValues :
           this.notExistParameterValues[index] # Zero

---------------------------------------------------------------------------
(* Identifier resolution (SpecIndex) *)

MaxIndexCalls == 4

IndexIds == {"ParamA", "ParamB", "ParamX", "ParamY", "ParamZ", "constructor"}

IndexPartIds == {"PartA", "PartX", "constructor"}

InitIndex == Constructed(defaultValues, InitialOpacities, MaxIndexCalls)

NextIndex ==
    \/ \E id \in IndexIds : GetParameterIndex(id)
    \/ \E id \in IndexIds : GetParameterValueById(id)
    \/ \E id \in IndexIds : SetParameterValueById(id, Int2Num(5), One)
    \/ \E id \in IndexIds : AddParameterValueById(id, Int2Num(5), Number(1, 2))
    \/ \E id \in IndexIds : MultiplyParameterValueById(id, Int2Num(-5), One)
    \/ SaveParameters
    \/ LoadParameters
    \/ \E id \in IndexPartIds : GetPartOpacityById(id)
    \/ \E id \in IndexPartIds : SetPartOpacityById(id, Number(1, 2))

SpecIndex == InitIndex /\ [][NextIndex]_vars

IsUnknownParameter(id) == Scan(parameterIds, id, 0) < 0

IsUnknownPart(id) == Scan(partIds, id, 0) < 0

Position(order, id) == CHOOSE i \in 1..Len(order) : order[i] = id

\* the index C1 gives an identifier: its position when real, else N + k for the
\* k-th distinct unknown identifier resolved
ExpectedParameterIndex(id) ==
    IF IsUnknownParameter(id)
    THEN Num(parameterCount + Position(unknownParameterOrder, id) - 1)
    ELSE Num(Scan(parameterIds, id, 0))

\* C1: a real identifier resolves to its position in [0, N), the k-th distinct
\* unknown identifier to N + k, every resolution of an identifier gives the
\* same index, and no two identifiers share an index.
C1_IndicesStableAndContiguous ==
    /\ \A id \in DOMAIN resolvedParameter :
           resolvedParameter[id] = ExpectedParameterIndex(id)
    /\ \A a, b \in DOMAIN resolvedParameter :
           a # b => resolvedParameter[a] # resolvedParameter[b]

\* the unknown identifiers resolved so far that Object.prototype does not name
RECURSIVE Ordinary(_)
Ordinary(order) ==
    IF order = <<>> THEN <<>>
    ELSE IF Head(order) \in ObjectPrototypeKeys THEN Ordinary(Tail(order))
    ELSE <<Head(order)>> \o Ordinary(Tail(order))

\* What the code does keep: among identifiers that Object.prototype does not
\* name, a real one resolves to its position, the k-th unknown one to N + k
\* at every resolution, and an identifier Object.prototype names resolves to
\* the inherited value and is given no shadow entry.
IndicesOfOrdinaryIdentifiers ==
    /\ \A id \in DOMAIN resolvedParameter :
           resolvedParameter[id] =
               IF ~IsUnknownParameter(id) THEN Num(Scan(parameterIds, id, 0))
               ELSE IF id \in ObjectPrototypeKeys THEN Inherited(id)
               ELSE Num(parameterCount
                        + Position(Ordinary(unknownParameterOrder), id) - 1)
    /\ DOMAIN this.notExistParameterId \cap ObjectPrototypeKeys = {}

ParameterByIdOps ==
    {"getParameterValueById", "setParameterValueById", "addParameterValueById",
     "multiplyParameterValueById"}

PartByIdOps == {"getPartOpacityById", "setPartOpacityById"}

\* C5: a parameter absent from the model reads 0 before anything is written
\* to it, and set / add / multiply store what they compute with no clamp:
\* after setParameterValueById(id, v, 1) getParameterValueById(id) gives v.
C5_ShadowReadsZeroAndStoresUnclamped ==
    [][/\ (call'.op = "getParameterValueById" /\ IsUnknownParameter(call'.id)
           /\ call'.id \notin DOMAIN resolvedParameter)
          => call'.ret = Zero
       /\ (call'.op = "setParameterValueById" /\ IsUnknownParameter(call'.id)
           /\ NumEq(call'.weight, One))
          => getParameterValueById(this', call'.id).ret = call'.value
       /\ (call'.op = "addParameterValueById" /\ IsUnknownParameter(call'.id))
          => getParameterValueById(this', call'.id).ret =
                 Plus(getParameterValueById(this, call'.id).ret,
                      Times(call'.value, call'.weight))
       /\ (call'.op = "multiplyParameterValueById" /\ IsUnknownParameter(call'.id))
          => getParameterValueById(this', call'.id).ret =
                 Times(getParameterValueById(this, call'.id).ret,
                       Plus(One, Times(Minus(call'.value, One), call'.weight)))]_vars

\* What the code does keep of C5: the same, for identifiers that
\* Object.prototype does not name.
ShadowValuesOfOrdinaryIdentifiers ==
    [][call'.id \notin ObjectPrototypeKeys
       => /\ (call'.op = "getParameterValueById" /\ IsUnknownParameter(call'.id)
              /\ call'.id \notin DOMAIN resolvedParameter)
             => call'.ret = Zero
          /\ (call'.op = "setParameterValueById" /\ IsUnknownParameter(call'.id)
              /\ NumEq(call'.weight, One))
             => getParameterValueById(this', call'.id).ret = call'.value
          /\ (call'.op = "addParameterValueById" /\ IsUnknownParameter(call'.id))
             => getParameterValueById(this', call'.id).ret =
                    Plus(getParameterValueById(this, call'.id).ret,
                         Times(call'.value, call'.weight))]_vars

\* C9: a by-identifier accessor called with an identifier absent from the
\* model meets no false assertion condition and leaves every real parameter
\* value and real part opacity as it was.
C9_UnknownIdentifierNeverFails ==
    [][(\/ call'.op \in ParameterByIdOps /\ IsUnknownParameter(call'.id)
        \/ call'.op \in PartByIdOps /\ IsUnknownPart(call'.id))
       => /\ ~call'.failed
          /\ this'.parameterValues = this.parameterValues
          /\ this'.partOpacities = this.partOpacities]_vars

---------------------------------------------------------------------------
(* Parts (SpecParts) *)

MaxPartCalls == 4

PartIdsUsed == {"PartA", "PartX", "PartY"}

Opacities == {Number(1, 2), One}

InitParts == Constructed(defaultValues, InitialOpacities, MaxPartCalls)

NextParts ==
    \/ \E id \in PartIdsUsed : GetPartIndex(id)
    \/ \E id \in PartIdsUsed : GetPartOpacityById(id)
    \/ \E id \in PartIdsUsed, opacity \in Opacities : SetPartOpacityById(id, opacity)
    \/ \E index \in PartIndices : GetPartOpacityByIndex(index)
    \/ \E index \in PartIndices, opacity \in Opacities :
           SetPartOpacityByIndex(index, opacity)

SpecParts == InitParts /\ [][NextParts]_vars

ExpectedPartIndex(id) ==
    IF IsUnknownPart(id)
    THEN Num(partCount + Position(unknownPartOrder, id) - 1)
    ELSE Num(Scan(partIds, id, 0))

\* C8: the k-th distinct unknown part identifier resolves to P + k at every
\* resolution, distinct identifiers to distinct indices, an unknown part
\* starts at opacity 0, and setPartOpacityById on one unknown part leaves the
\* opacity read for every other unknown part as it was.
C8_PartShadowEntries ==
    [][/\ \A id \in DOMAIN resolvedPart' : resolvedPart'[id] = ExpectedPartIndex(id)'
       /\ \A a, b \in DOMAIN resolvedPart' :
              a # b => resolvedPart'[a] # resolvedPart'[b]
       /\ (call'.op = "getPartOpacityById" /\ IsUnknownPart(call'.id)
           /\ call'.id \notin DOMAIN resolvedPart)
          => call'.ret = Zero
       /\ (call'.op = "setPartOpacityById" /\ IsUnknownPart(call'.id))
          => \A other \in DOMAIN resolvedPart :
                 (IsUnknownPart(other) /\ other # call'.id)
                 => getPartOpacityById(this', other).ret =
                        getPartOpacityById(this, other).ret]_vars

\* The part of C8 that is about values alone: writing one unknown part
\* leaves the opacity of the other unknown parts.  The code does not keep
\* this either: all unknown parts share the slot keyed "NaN".
PartOpacitiesIndependent ==
    [][(call'.op = "setPartOpacityById" /\ IsUnknownPart(call'.id))
       => \A other \in DOMAIN resolvedPart :
              (IsUnknownPart(other) /\ other # call'.id)
              => getPartOpacityById(this', other).ret =
                     getPartOpacityById(this, other).ret]_vars

---------------------------------------------------------------------------
(* Per-drawable override flags (SpecColors) *)

MaxFlagCalls == 4

InitColors == Constructed(defaultValues, InitialOpacities, MaxFlagCalls)

NextColors ==
    \/ \E i \in Drawables : GetOverwriteFlagForDrawableMultiplyColors(i)
    \/ \E i \in Drawables : GetOverwriteFlagForDrawableScreenColors(i)
    \/ \E i \in Drawables, value \in BOOLEAN :
           SetOverwriteFlagForDrawableMultiplyColors(i, value)
    \/ \E i \in Drawables, value \in BOOLEAN :
           SetOverwriteFlagForDrawableScreenColors(i, value)

SpecColors == InitColors /\ [][NextColors]_vars

\* C10: for every drawable, the screen-colour flag getter returns the value
\* last given to the screen-colour flag setter (false if never set), whatever
\* the multiply-colour flag is, and the multiply-colour getter likewise.
C10_FlagsIndependent ==
    \A i \in Drawables :
        /\ getOverwriteFlagForDrawableScreenColors(this, i).ret = overwriteSet.screen[i]
        /\ getOverwriteFlagForDrawableMultiplyColors(this, i).ret
               = overwriteSet.multiply[i]

\* What the code does keep of C10: the multiply-colour getter returns the
\* value last given to the multiply-colour setter, and the stored
\* screen-colour flag is the value last given to its setter.
MultiplyFlagFollowsItsSetter ==
    \A i \in Drawables :
        /\ getOverwriteFlagForDrawableMultiplyColors(this, i).ret
               = overwriteSet.multiply[i]
        /\ this.userScreenColors[i + 1].isOverwritten = overwriteSet.screen[i]


---------------------------------------------------------------------------
(* Colour precedence (SpecPrecedence) *)

MaxColorCalls == 3

\* the colours a caller sets
UserColors == {RGBA(One, Zero, Zero, One)}

InitPrecedence == Constructed(defaultValues, InitialOpacities, MaxColorCalls)

NextPrecedence ==
    \/ \E value \in BOOLEAN : SetOverwriteFlagForModelMultiplyColors(value)
    \/ \E value \in BOOLEAN : SetOverwriteFlagForModelScreenColors(value)
    \/ \E i \in Drawables, value \in BOOLEAN :
           SetOverwriteFlagForDrawableMultiplyColors(i, value)
    \/ \E i \in Drawables, value \in BOOLEAN :
           SetOverwriteFlagForDrawableScreenColors(i, value)
    \/ \E i \in Drawables, color \in UserColors : SetMultiplyColorByRGBA(i, color)
    \/ \E i \in Drawables, color \in UserColors : SetScreenColorByRGBA(i, color)
    \/ \E i \in Drawables : GetMultiplyColor(i)
    \/ \E i \in Drawables : GetScreenColor(i)

SpecPrecedence == InitPrecedence /\ [][NextPrecedence]_vars

\* the colour the precedence rule gives: the user colour when the model-wide
\* flag or the drawable's own flag of the kind is set, else the engine's
Precedence(modelFlag, user, engine) ==
    IF modelFlag \/ user.isOverwritten THEN user.Color ELSE engine

\* C11: for every drawable and each colour kind, get<Kind>Color returns the
\* user colour when the model-wide flag of that kind is set, the user colour
\* when only the drawable's own flag of that kind is set, and the engine's
\* colour when neither flag of that kind is set.
C11_ColorPrecedence ==
    \A i \in Drawables :
        /\ getMultiplyColor(this, i).ret =
               Precedence(this.isOverwrittenModelMultiplyColors,
                          this.userMultiplyColors[i + 1], multiplyColors[i + 1])
        /\ getScreenColor(this, i).ret =
               Precedence(this.isOverwrittenModelScreenColors,
                          this.userScreenColors[i + 1], screenColors[i + 1])

\* What the code does keep of C11: the multiply colour follows the rule, and
\* the screen colour is the user colour whenever the model-wide screen flag
\* is set.
MultiplyColorPrecedence ==
    \A i \in Drawables :
        /\ getMultiplyColor(this, i).ret =
               Precedence(this.isOverwrittenModelMultiplyColors,
                          this.userMultiplyColors[i + 1], multiplyColors[i + 1])
        /\ this.isOverwrittenModelScreenColors
               => getScreenColor(this, i).ret = this.userScreenColors[i + 1].Color


---------------------------------------------------------------------------
(* Expression blending (SpecBlend) *)

MaxBlendCalls == 3

\* ParamB := 1/2 with no fade, a scheduling offset and a duration of 0;
\* ParamA * 2 and an entry whose Blend string names no operator, default
\* fades, a duration of 2; ParamB + 1 and no Blend key, default fades
ExpressionJSONs ==
    <<[FadeInTime |-> Zero, FadeOutTime |-> Zero,
       Parameters |-> <<[Id |-> "ParamB", Value |-> Number(1, 2),
                         Blend |-> "Overwrite"]>>],
      [FadeInTime |-> Undefined, FadeOutTime |-> Undefined,
       Parameters |-> <<[Id |-> "ParamA", Value |-> Int2Num(2), Blend |-> "Multiply"],
                        [Id |-> "ParamX", Value |-> Int2Num(5), Blend |-> "Screen"]>>],
      [FadeInTime |-> Undefined, FadeOutTime |-> Undefined,
       Parameters |-> <<[Id |-> "ParamB", Value |-> One, Blend |-> ""]>>]>>

Expressions ==
    <<Expression(ExpressionJSONs[1], Number(1, 2), Zero),
      Expression(ExpressionJSONs[2], Zero, Int2Num(2)),
      Expression(ExpressionJSONs[3], Zero, Int2Num(-1))>>

\* the parameters the accumulator tracks
SlotIds == <<"ParamA", "ParamB", "ParamX">>

\* the time values of the frames
FrameTimes == {Zero, Number(3, 10), One}

ExpressionIndices == {0, 1}

EndTimes == {Number(1, 2)}

InitBlend == \E values \in InitialValues :
    ConstructedWith(values, InitialOpacities, MaxBlendCalls, Expressions, SlotIds)

NextBlend ==
    \/ \E k \in Instances, expressionIndex \in ExpressionIndices, time \in FrameTimes :
           CalculateExpressionParameters(k, expressionIndex, time)
    \/ \E k \in Instances : SetIsFinished(k)
    \/ \E k \in Instances, endTime \in EndTimes : SetEndTime(k, endTime)

SpecBlend == InitBlend /\ [][NextBlend]_vars


\* the step is a blend call for an available playback instance
Blends == call'.op = "calculateExpressionParameters" /\ entries[call'.motion].available

\* the entry of the blending asset for slot i, from 1, or 0
Referenced(i) ==
    FindParameter(motions[call'.motion].parameters,
                  expressionParameterValues[i].parameterId, 1)

AssetEntry(i) == motions[call'.motion].parameters[Referenced(i)]

\* the model's current value of the parameter of slot i
Current(i) == getParameterValueById(this, expressionParameterValues[i].parameterId).ret

\* the values an asset entry declares for the three channels
NewAdditive(i) ==
    IF AssetEntry(i).blendType = Additive THEN AssetEntry(i).value ELSE Zero

NewMultiply(i) ==
    IF AssetEntry(i).blendType = Multiply THEN AssetEntry(i).value ELSE One

NewOverwrite(i) ==
    IF AssetEntry(i).blendType = Overwrite THEN AssetEntry(i).value ELSE Current(i)

Channels(slot) == <<slot.additiveValue, slot.multiplyValue, slot.overwriteValue>>

\* old * (1 - w) + new * w
Mix(old, new, w) == Plus(Times(old, Minus(One, w)), Times(new, w))

\* C12: after a blend call with expressionIndex 0 on an available instance
\* every slot holds, whatever it held and whatever the fade weight is, the
\* declared contribution when the asset references its parameter (Additive:
\* (value, 1, current), Multiply: (0, value, current), Overwrite:
\* (0, 1, value)) and the neutral triple (0, 1, current) when it does not.
C12_BootstrapReplaces ==
    [][(Blends /\ call'.index = Num(0)) =>
          \A i \in 1..Len(expressionParameterValues) :
              Channels(expressionParameterValues'[i]) =
                  IF Referenced(i) = 0 THEN <<Zero, One, Current(i)>>
                  ELSE IF AssetEntry(i).blendType = Additive
                  THEN <<AssetEntry(i).value, One, Current(i)>>
                  ELSE IF AssetEntry(i).blendType = Multiply
                  THEN <<Zero, AssetEntry(i).value, Current(i)>>
                  ELSE <<Zero, One, AssetEntry(i).value>>]_vars

\* C12 witness: an index-0 blend call with a fade weight strictly between 0
\* and 1 left the declared factor 2 in ParamA's multiply channel and the
\* neutral triple in the slot of ParamB, which the asset does not reference.
C12_Witness ==
    /\ call.op = "calculateExpressionParameters"
    /\ call.index = Num(0)
    /\ call.weight = Number(3, 10)
    /\ entries[call.motion].available
    /\ Channels(expressionParameterValues[1]) =
           <<Zero, Int2Num(2), this.parameterValues[1]>>
    /\ Channels(expressionParameterValues[2]) =
           <<Zero, One, this.parameterValues[2]>>

\* C13: for expressionIndex > 0 and every slot the asset references, each
\* channel after the call is old * (1 - w) + new * w, old being what the
\* channel held before the call and new the value the asset declares for it.
C13_LaterExpressionBlends ==
    [][(Blends /\ call'.index # Num(0)) =>
          \A i \in 1..Len(expressionParameterValues) :
              Referenced(i) # 0 =>
                  Channels(expressionParameterValues'[i]) =
                      <<Mix(expressionParameterValues[i].additiveValue,
                            NewAdditive(i), call'.weight),
                        Mix(expressionParameterValues[i].multiplyValue,
                            NewMultiply(i), call'.weight),
                        Mix(expressionParameterValues[i].overwriteValue,
                            NewOverwrite(i), call'.weight)>>]_vars

\* What the code does keep of C13: the additive and the multiply channel
\* blend from their old value; the overwrite channel blends from the
\* model's current value instead of its old value.
LaterExpressionBlendsFromCurrent ==
    [][(Blends /\ call'.index # Num(0)) =>
          \A i \in 1..Len(expressionParameterValues) :
              Referenced(i) # 0 =>
                  Channels(expressionParameterValues'[i]) =
                      <<Mix(expressionParameterValues[i].additiveValue,
                            NewAdditive(i), call'.weight),
                        Mix(expressionParameterValues[i].multiplyValue,
                            NewMultiply(i), call'.weight),
                        Mix(Current(i), NewOverwrite(i), call'.weight)>>]_vars

\* C14: for expressionIndex > 0 and every slot the asset does not reference,
\* each channel after the call is old * (1 - w) + neutral * w with neutral
\* 0 (additive), 1 (multiply) and the model's current value (overwrite); an
\* overwrite channel of 1/2 and w = 3/10 give 1/2 * 7/10 + current * 3/10.
C14_BlendsAwayToNeutral ==
    [][(Blends /\ call'.index # Num(0)) =>
          \A i \in 1..Len(expressionParameterValues) :
              Referenced(i) = 0 =>
                  Channels(expressionParameterValues'[i]) =
                      <<Mix(expressionParameterValues[i].additiveValue, Zero,
                            call'.weight),
                        Mix(expressionParameterValues[i].multiplyValue, One,
                            call'.weight),
                        Mix(expressionParameterValues[i].overwriteValue, Current(i),
                            call'.weight)>>]_vars

\* What the code does keep of C14: the additive and the multiply channel
\* blend away to 0 and 1; the overwrite channel becomes the model's current
\* value at once.
AdditiveAndMultiplyBlendAway ==
    [][(Blends /\ call'.index # Num(0)) =>
          \A i \in 1..Len(expressionParameterValues) :
              Referenced(i) = 0 =>
                  Channels(expressionParameterValues'[i]) =
                      <<Mix(expressionParameterValues[i].additiveValue, Zero,
                            call'.weight),
                        Mix(expressionParameterValues[i].multiplyValue, One,
                            call'.weight),
                        Current(i)>>]_vars

\* C15: a blend call for a playback instance that is not available leaves
\* every channel of every slot as it was, for every expressionIndex.
C15_UnavailableIsExcluded ==
    [][(call'.op = "calculateExpressionParameters" /\ ~entries[call'.motion].available)
          => expressionParameterValues' = expressionParameterValues]_vars

\* C15 witness: an index-0 blend call for an ended instance was made while
\* ParamB's slot held an overwrite value other than the model's, which a
\* blend would have replaced.
C15_Witness ==
    /\ call.op = "calculateExpressionParameters"
    /\ call.index = Num(0)
    /\ ~entries[call.motion].available
    /\ expressionParameterValues[2].overwriteValue = Number(1, 2)
    /\ this.parameterValues[2] # Number(1, 2)


---------------------------------------------------------------------------
(* Operator tags outside the enum (SpecTag): the blend calls of SpecBlend, *)
(* and a caller that appends an entry to the array of a motion             *)

\* the entries a caller appends: a tag that is no ExpressionBlendType
PushedParameters == {[parameterId |-> "ParamA", blendType |-> 3, value |-> One]}

NextTag ==
    \/ \E k \in Instances, expressionIndex \in ExpressionIndices, time \in FrameTimes :
           CalculateExpressionParameters(k, expressionIndex, time)
    \/ \E k \in Instances, item \in PushedParameters : PushExpressionParameter(k, item)

SpecTag == InitBlend /\ [][NextTag]_vars

\* the operator an entry counts as when every unrecognized tag is Additive
AsAdditive(blendType) ==
    IF blendType \in {Multiply, Overwrite} THEN blendType ELSE Additive

AdditiveDeclared(i) ==
    IF Referenced(i) # 0 /\ AsAdditive(AssetEntry(i).blendType) = Additive
    THEN AssetEntry(i).value ELSE Zero

MultiplyDeclared(i) ==
    IF Referenced(i) # 0 /\ AsAdditive(AssetEntry(i).blendType) = Multiply
    THEN AssetEntry(i).value ELSE One

\* C16: parsing maps an absent or unrecognized Blend string to Additive, and
\* a blend call that meets an entry with an unrecognized operator tag takes
\* it as an additive value and still updates every slot: every slot's
\* additive and multiply channel is the declared value (index 0) or the old
\* value blended towards it (later indices), the unrecognized tag declaring
\* an additive value.
C16_UnrecognizedIsAdditive ==
    [][/\ \A n \in 1..Len(ExpressionJSONs) :
              \A i \in 1..Len(ExpressionJSONs[n].Parameters) :
                  create(ExpressionJSONs[n]).parameters[i].blendType =
                      IF ExpressionJSONs[n].Parameters[i].Blend = "Multiply"
                      THEN Multiply
                      ELSE IF ExpressionJSONs[n].Parameters[i].Blend = "Overwrite"
                      THEN Overwrite
                      ELSE Additive
       /\ Blends =>
              \A i \in 1..Len(expressionParameterValues) :
                  /\ expressionParameterValues'[i].additiveValue =
                         IF call'.index = Num(0) THEN AdditiveDeclared(i)
                         ELSE Mix(expressionParameterValues[i].additiveValue,
                                  AdditiveDeclared(i), call'.weight)
                  /\ expressionParameterValues'[i].multiplyValue =
                         IF call'.index = Num(0) THEN MultiplyDeclared(i)
                         ELSE Mix(expressionParameterValues[i].multiplyValue,
                                  MultiplyDeclared(i), call'.weight)]_vars


---------------------------------------------------------------------------
(* Blend and apply (SpecApply): a sole expression adding 1 to a parameter, *)
(* blended with expressionIndex 0 at t = 0 and applied                     *)

MaxApplyCalls == 3

\* Parameters = [{Id: "ParamA", Value: 1.0, Blend: "Add"}], FadeInTime = 0,
\* and the same asset for a parameter the model does not have
AddOneJSONs ==
    <<[FadeInTime |-> Zero, FadeOutTime |-> Undefined,
       Parameters |-> <<[Id |-> "ParamA", Value |-> One, Blend |-> "Add"]>>],
      [FadeInTime |-> Zero, FadeOutTime |-> Undefined,
       Parameters |-> <<[Id |-> "ParamX", Value |-> One, Blend |-> "Add"]>>]>>

AddOneExpressions ==
    <<Expression(AddOneJSONs[1], Zero, Int2Num(-1)),
      Expression(AddOneJSONs[2], Zero, Int2Num(-1))>>

ApplySlotIds == <<"ParamA", "ParamX">>

InitApply == \E values \in InitialValues :
    ConstructedWith(values, InitialOpacities, MaxApplyCalls, AddOneExpressions,
                    ApplySlotIds)

NextApply ==
    \/ \E id \in Ids, value \in IdValues, weight \in IdWeights :
           SetParameterValueById(id, value, weight)
    \/ \E k \in Instances : CalculateExpressionParameters(k, 0, Zero)
    \/ Apply

SpecApply == InitApply /\ [][NextApply]_vars

\* the step applies the accumulator right after the index-0 blend call of
\* an instance
AppliesBlend == call'.op = "apply" /\ call'.motion # 0

\* the parameter the asset of the applied expression adds 1 to
AddedTo == motions[call'.motion].parameters[1].parameterId

ParameterValue(m, id) == getParameterValueById(m, id).ret

\* C17: one blend call (sole expression, index 0, t = 0) of the asset that
\* adds 1.0 to a parameter, followed by the apply step, leaves the
\* parameter at its pre-existing value plus 1.0, for every pre-existing
\* value, real or shadow.
C17_AddsOne ==
    [][AppliesBlend =>
          ParameterValue(this', AddedTo) = Plus(ParameterValue(this, AddedTo), One)]_vars

\* C17 as amended: a shadow parameter is left at its pre-existing value plus
\* 1.0, a real parameter at that sum brought into [minimum, maximum].
C17_AddsOneWithinRange ==
    [][AppliesBlend =>
          LET sum == Plus(ParameterValue(this, AddedTo), One)
              found == Scan(parameterIds, AddedTo, 0)
          IN ParameterValue(this', AddedTo) =
                 IF found < 0 THEN sum
                 ELSE IF Less(maximumValues[found + 1], sum)
                 THEN maximumValues[found + 1]
                 ELSE IF Less(sum, minimumValues[found + 1])
                 THEN minimumValues[found + 1]
                 ELSE sum]_vars

\* C17 witness: blend and apply alone were called on the model whose ParamA
\* was 1/2, and ParamA is at its maximum 1, not at 3/2.
C17_Witness ==
    /\ call.op = "apply"
    /\ call.motion = 1
    /\ remaining = MaxApplyCalls - 2
    /\ this.parameterValues[1] = One


---------------------------------------------------------------------------
(* The playback instance over the blend calls (SpecBlend) *)

\* the step is a blend call
IsBlendCall == call'.op = "calculateExpressionParameters"

\* the states of a playback instance: an ended instance is Finished
\* whether or not it had started
NotStarted(entry) == entry.available /\ ~entry.started

Indefinite(k) == ~Less(Zero, motions[k].duration)

\* C18: an instance whose motion declares a duration <= 0 and whose end time
\* was not set externally gets the end time -1 on its first blend call, and
\* every blend call leaves it started and available with the end time -1:
\* none marks it finished or gives it a non-negative end time.
C18_IndefiniteNeverEnds ==
    [][(/\ IsBlendCall
        /\ Indefinite(call'.motion)
        /\ Less(entries[call'.motion].endTime, Zero))
          => /\ entries'[call'.motion].finished = entries[call'.motion].finished
             /\ entries'[call'.motion].available = entries[call'.motion].available
             /\ entries[call'.motion].available
                    => /\ entries'[call'.motion].started
                       /\ entries'[call'.motion].endTime = Int2Num(-1)]_vars

\* C18 witness: the instance with the declared duration 0, started at
\* t = 0, was blended again at t = 1 and is started and available with the
\* end time -1.
C18_Witness ==
    /\ call.op = "calculateExpressionParameters"
    /\ call.motion = 1
    /\ call.value = One
    /\ motions[1].duration = Zero
    /\ entries[1].fadeInStartTime = Zero
    /\ entries[1].started /\ entries[1].available /\ ~entries[1].finished
    /\ entries[1].endTime = Int2Num(-1)

---------------------------------------------------------------------------
(* CubismMoc.create (SpecMoc) *)

MaxMocCalls == 3

\* payloads: consistent or not (0, and a value that is neither 0 nor 1),
\* loadable or not
Payloads ==
    {[name |-> "good", consistency |-> 1, loads |-> TRUE, version |-> 5],
     [name |-> "bad", consistency |-> 0, loads |-> TRUE, version |-> 5],
     [name |-> "odd", consistency |-> 2, loads |-> TRUE, version |-> 4],
     [name |-> "broken", consistency |-> 0, loads |-> FALSE, version |-> 0],
     [name |-> "unloadable", consistency |-> 1, loads |-> FALSE, version |-> 0]}

InitMoc == Constructed(defaultValues, InitialOpacities, MaxMocCalls)

NextMoc ==
    \/ \E mocBytes \in Payloads, shouldCheckMocConsistency \in BOOLEAN :
           Create(mocBytes, shouldCheckMocConsistency)
    \/ \E fromMoc \in BOOLEAN : CreateModel(fromMoc)
    \/ \E isModel \in BOOLEAN : DeleteModel(isModel)

SpecMoc == InitMoc /\ [][NextMoc]_vars

\* the engine calls the step made
NewEngineCalls == SubSeq(engineCalls', Len(engineCalls) + 1, Len(engineCalls'))

Made(fn) == \E i \in 1..Len(NewEngineCalls) : NewEngineCalls[i].fn = fn

\* C19: create with the check on and a payload the predicate rejects throws
\* before the payload reaches the loader and gives no CubismMoc; with the
\* check off the predicate is not consulted and the outcome is the loader's:
\* a CubismMoc of the loaded moc, or an error and no CubismMoc when the
\* loader gives null.
C19_CreateChecksBeforeLoading ==
    [][call'.op = "CubismMoc.create" =>
          /\ (call'.shouldCheckMocConsistency /\ call'.mocBytes.consistency # 1)
                 => /\ cubismMoc'.thrown # ""
                    /\ cubismMoc'.value = NoMoc
                    /\ ~Made("fromArrayBuffer")
          /\ ~call'.shouldCheckMocConsistency
                 => /\ ~Made("hasMocConsistency")
                    /\ Made("fromArrayBuffer")
                    /\ call'.mocBytes.loads
                           => /\ cubismMoc'.thrown = ""
                              /\ cubismMoc'.value # NoMoc
                              /\ cubismMoc'.value.moc = call'.mocBytes.name
                    /\ ~call'.mocBytes.loads
                           => /\ cubismMoc'.thrown # ""
                              /\ cubismMoc'.value = NoMoc]_vars

\* C19 witness: a loadable payload the predicate rejects was given to
\* create with the check on: an error, no CubismMoc, and the engine was
\* asked for the consistency only.
C19_Witness ==
    /\ call.op = "CubismMoc.create"
    /\ call.shouldCheckMocConsistency
    /\ call.mocBytes.name = "bad"
    /\ cubismMoc = Thrown("Inconsistent MOC3.")
    /\ engineCalls = <<[fn |-> "hasMocConsistency", mocBytes |-> "bad"]>>


---------------------------------------------------------------------------
(* What a blend call does to the model (SpecRead): an accumulator with a   *)
(* slot without identifier and slots of identifiers the model has not seen *)

MaxReadCalls == 3

\* slots the caller filled without asking the model: ParamB, a slot whose
\* parameterId is null, and two identifiers the model does not have
ReadSlots ==
    <<[parameterId |-> "ParamB", additiveValue |-> Zero, multiplyValue |-> One,
       overwriteValue |-> Number(1, 2)],
      [parameterId |-> Null, additiveValue |-> Int2Num(2),
       multiplyValue |-> Int2Num(3), overwriteValue |-> Number(1, 2)],
      [parameterId |-> "ParamX", additiveValue |-> Zero, multiplyValue |-> One,
       overwriteValue |-> Zero],
      [parameterId |-> "constructor", additiveValue |-> Zero, multiplyValue |-> One,
       overwriteValue |-> Zero]>>

InitRead == \E values \in InitialValues :
    ConstructedFrom(values, InitialOpacities, MaxReadCalls, Expressions,
                    [m |-> constructor(values, InitialOpacities), values |-> ReadSlots])

NextRead ==
    \/ \E k \in Instances, expressionIndex \in ExpressionIndices, time \in FrameTimes :
           CalculateExpressionParameters(k, expressionIndex, time)
    \/ \E k \in Instances : SetIsFinished(k)
    \/ \E id \in Ids, value \in IdValues :
           SetParameterValueById(id, value, One)

SpecRead == InitRead /\ [][NextRead]_vars

\* the identifiers of the slots that have one
SlotIdentifiers ==
    {expressionParameterValues[i].parameterId :
         i \in {j \in 1..Len(expressionParameterValues) :
                    expressionParameterValues[j].parameterId # Null}}

\* every field of the model but the two shadow tables of the parameters
RestOfModel(m) ==
    [m EXCEPT !.notExistParameterId = EmptyObject,
              !.notExistParameterValues = EmptyObject]

\* C21: a blend call only reads the model: every real parameter value and
\* every registered shadow value is after the call what it was before; the
\* only change is a new shadow entry with the value 0 for the identifier of
\* a slot that the model has not seen; a slot whose parameterId is null is
\* skipped, slot and model untouched.
C21_BlendOnlyReadsModel ==
    [][IsBlendCall =>
          /\ RestOfModel(this') = RestOfModel(this)
          /\ \A id \in DOMAIN this.notExistParameterId :
                 /\ id \in DOMAIN this'.notExistParameterId
                 /\ this'.notExistParameterId[id] = this.notExistParameterId[id]
          /\ \A index \in DOMAIN this.notExistParameterValues :
                 /\ index \in DOMAIN this'.notExistParameterValues
                 /\ this'.notExistParameterValues[index] =
                        this.notExistParameterValues[index]
          /\ \A id \in DOMAIN this'.notExistParameterId \ DOMAIN this.notExistParameterId :
                 /\ id \in SlotIdentifiers
                 /\ Scan(parameterIds, id, 0) < 0
                 /\ this'.notExistParameterId[id] \notin DOMAIN this.notExistParameterValues
                 /\ this'.notExistParameterValues[this'.notExistParameterId[id]] = Zero
          /\ Cardinality(DOMAIN this'.notExistParameterValues) =
                 Cardinality(DOMAIN this'.notExistParameterId)
          /\ \A i \in 1..Len(expressionParameterValues) :
                 expressionParameterValues[i].parameterId = Null
                     => expressionParameterValues'[i] = expressionParameterValues[i]]_vars

\* C21 witness: after ParamX was set to 5, a blend call of an available
\* instance left ParamX at 5 and the slot without identifier as it was, and
\* no entry was made for that slot.
C21_Witness ==
    /\ call.op = "calculateExpressionParameters"
    /\ entries[call.motion].available
    /\ "ParamX" \in DOMAIN this.notExistParameterId
    /\ this.notExistParameterValues[this.notExistParameterId["ParamX"]] = Int2Num(5)
    /\ expressionParameterValues[2] = ReadSlots[2]
    /\ expressionParameterValues[3].overwriteValue = Int2Num(5)
    /\ Null \notin DOMAIN this.notExistParameterId

=============================================================================
